---- MODULE Spec2Model ----
(***************************************************************************)
(* A model of the account pipeline of rpc (src/rpc/provider.go): the       *)
(* multicall calldata encoder fmtExecuteCalldata, the transaction hasher   *)
(* HashMultiCall and the orchestration Nonce / EstimateFee / Execute.      *)
(***************************************************************************)
EXTENDS Integers, Sequences, FiniteSets, TLC

(***************************************************************************)
(* *big.Int values.  A Go *big.Int is nil or points to an integer of any   *)
(* size: sign and magnitude, the magnitude held in two limbs (hi * Limb +  *)
(* lo), which is enough for every number of the model.                     *)
(***************************************************************************)
Limb == 2 ^ 24

NilBig == [isNil |-> TRUE, neg |-> FALSE, hi |-> 0, lo |-> 0]

\* big.NewInt(n) for a natural number n below Limb.
Big(n) == [isNil |-> FALSE, neg |-> FALSE, hi |-> 0, lo |-> n]

\* The natural number a small non-negative value holds.
ToNat(x) == x.hi * Limb + x.lo

IsZero(x) == x.hi = 0 /\ x.lo = 0

\* x * m + d on magnitudes, for small m and d.
MulAdd(x, m, d) ==
  [x EXCEPT !.hi = x.hi * m + ((x.lo * m + d) \div Limb),
            !.lo = (x.lo * m + d) % Limb]

\* Quotient and remainder of the magnitude of x by a small m.
Quot(x, m) ==
  [x EXCEPT !.hi = x.hi \div m,
            !.lo = ((x.hi % m) * Limb + x.lo) \div m]

Rem(x, m) == ((x.hi % m) * Limb + x.lo) % m

(***************************************************************************)
(* Strings are sequences of one-character strings, so that parsing and     *)
(* formatting are computed digit by digit.                                 *)
(***************************************************************************)
Digits == <<"0", "1", "2", "3", "4", "5", "6", "7", "8", "9",
            "a", "b", "c", "d", "e", "f">>

\* The value of digit c, or 16 when c is no digit.
DigitVal(c) ==
  IF \E i \in 1..16 : Digits[i] = c
    THEN (CHOOSE i \in 1..16 : Digits[i] = c) - 1
    ELSE 16

RECURSIVE DigitsValue(_, _)
\* The value of the digit string s in the given base, nil when s is empty or
\* holds a character that is no digit of the base.
DigitsValue(s, base) ==
  IF Len(s) = 0 THEN NilBig
  ELSE LET d == DigitVal(s[Len(s)])
           front == SubSeq(s, 1, Len(s) - 1)
       IN IF d >= base THEN NilBig
          ELSE IF Len(front) = 0 THEN Big(d)
          ELSE LET high == DigitsValue(front, base)
               IN IF high.isNil THEN NilBig ELSE MulAdd(high, base, d)

\* s without its first n characters.
Drop(s, n) == SubSeq(s, n + 1, Len(s))

HasPrefix(s, p) == Len(s) >= Len(p) /\ SubSeq(s, 1, Len(p)) = p

\* big.Int.SetString(s, base) for an unsigned body: base 0 takes the base from
\* the prefix ("0x" 16, "0b" 2, "0o" or "0" 8, otherwise 10).
SetUnsigned(s, base) ==
  LET prefixed == HasPrefix(s, <<"0", "x">>) \/ HasPrefix(s, <<"0", "b">>)
                    \/ HasPrefix(s, <<"0", "o">>)
      octal == HasPrefix(s, <<"0">>) /\ Len(s) > 1
      body == IF base # 0 THEN s
              ELSE IF prefixed THEN Drop(s, 2)
              ELSE IF octal THEN Drop(s, 1)
              ELSE s
      b == IF base # 0 THEN base
           ELSE IF HasPrefix(s, <<"0", "x">>) THEN 16
           ELSE IF HasPrefix(s, <<"0", "b">>) THEN 2
           ELSE IF octal THEN 8
           ELSE 10
  IN DigitsValue(body, b)

\* big.Int.SetString(s, base): the parsed value, or nil (ok = false).
SetString(s, base) ==
  LET neg == HasPrefix(s, <<"-">>)
      mag == SetUnsigned(IF neg THEN Drop(s, 1) ELSE s, base)
  IN IF mag.isNil THEN NilBig ELSE [mag EXCEPT !.neg = neg /\ ~IsZero(mag)]

RECURSIVE NatText(_, _)
\* The digits of the magnitude of x in the given base.
NatText(x, base) ==
  IF x.hi = 0 /\ x.lo < base THEN <<Digits[x.lo + 1]>>
  ELSE NatText(Quot(x, base), base) \o <<Digits[Rem(x, base) + 1]>>

\* big.Int.Text(base): "<nil>" for a nil pointer, a leading "-" when negative.
Text(x, base) ==
  IF x.isNil THEN <<"<", "n", "i", "l", ">">>
  ELSE IF x.neg THEN <<"-">> \o NatText(x, base)
  ELSE NatText(x, base)

\* fmt.Sprintf("0x%s", x.Text(16))
Hex(x) == <<"0", "x">> \o Text(x, 16)

RECURSIVE Strip0x(_)
\* strings.Replace(s, "0x", "", -1)
Strip0x(s) ==
  IF Len(s) < 2 THEN s
  ELSE IF HasPrefix(s, <<"0", "x">>) THEN Strip0x(Drop(s, 2))
  ELSE <<s[1]>> \o Strip0x(Drop(s, 1))

\* caigo.SNValToBN: a string holding "0x" is read as hexadecimal, any other
\* string as decimal; an unparseable string yields nil.
SNValToBN(str) ==
  IF \E i \in 1..(Len(str) - 1) : str[i] = "0" /\ str[i + 1] = "x"
    THEN SetString(Strip0x(str), 16)
    ELSE SetString(str, 10)

(***************************************************************************)
(* Calls.  A types.FunctionCall has a contract address (a types.Hash, here *)
(* the number it holds), an entry-point name and call-data strings.        *)
(***************************************************************************)
\* caigo.GetSelectorFromName: a fixed collision-free map from names to felts.
GetSelectorFromName(name) ==
  CASE name = "transfer" -> Big(101)
    [] name = "approve" -> Big(102)
    [] name = "__execute__" -> Big(103)
    [] name = "get_nonce" -> Big(104)

\* types.Hash.Hex(): the address in hexadecimal with the 0x prefix.
HashHex(addr) == Hex(Big(addr))

\* The (offset, length) pair a call adds to the call array.
OffsetLenZeroAsBuffer(calldataArray, tx) ==
  <<Big(Len(calldataArray)), Big(Len(tx.CallData))>>

OffsetLenAfterAppend(calldataArray, tx) ==
  IF Len(tx.CallData) = 0
    THEN <<Big(0), Big(0)>>
    ELSE <<Big(Len(calldataArray) + Len(tx.CallData)), Big(Len(tx.CallData))>>

OffsetLen(calldataArray, tx) ==
  IF Len(tx.CallData) = 0
    THEN <<Big(0), Big(0)>>
    ELSE <<Big(Len(calldataArray)), Big(Len(tx.CallData))>>

\* The argument buffer after the call's arguments are appended to it.
AppendArgs(calldataArray, tx) ==
  IF Len(tx.CallData) = 0
    THEN calldataArray
    ELSE calldataArray \o [k \in 1..Len(tx.CallData) |-> SNValToBN(tx.CallData[k])]

RECURSIVE FmtLoop(_, _, _, _)
\* The loop over the calls, from call i on.
FmtLoop(calls, i, callArray, calldataArray) ==
  IF i > Len(calls)
    THEN [callArray |-> callArray, calldataArray |-> calldataArray]
    ELSE LET tx == calls[i]
             address == SetString(HashHex(tx.ContractAddress), 0)
             withHead == callArray
                           \o <<address, GetSelectorFromName(tx.EntryPointSelector)>>
                           \o OffsetLen(calldataArray, tx)
         IN FmtLoop(calls, i + 1, withHead, AppendArgs(calldataArray, tx))

\* What follows the per-call entries: buffer length, buffer, nonce.
FmtTailNonceFirst(callArray, calldataArray, nonce) ==
  callArray \o <<Big(Len(calldataArray))>> \o <<nonce>> \o calldataArray

FmtTail(callArray, calldataArray, nonce) ==
  callArray \o <<Big(Len(calldataArray))>> \o calldataArray \o <<nonce>>

fmtExecuteCalldata(nonce, calls) ==
  LET r == FmtLoop(calls, 1, <<Big(Len(calls))>>, <<>>)
  IN FmtTail(r.callArray, r.calldataArray, nonce)

fmtExecuteCalldataStrings(nonce, calls) ==
  LET callArray == fmtExecuteCalldata(nonce, calls)
  IN [k \in 1..Len(callArray) |-> Hex(callArray[k])]

(***************************************************************************)
(* Inputs.                                                                 *)
(***************************************************************************)
MaxCalls == 3

\* Call-data lists: none, one hexadecimal, decimal and hexadecimal, one that
\* is no number, and three arguments.
ArgLists == { <<>>,
              << <<"0", "x", "1">> >>,
              << <<"1", "0">>, <<"0", "x", "a">> >>,
              << <<"z", "z">> >>,
              << <<"7">>, <<"0", "x", "1", "f">>, <<"2">> >> }

Callees == { [ContractAddress |-> 26, EntryPointSelector |-> "transfer"],
             [ContractAddress |-> 7, EntryPointSelector |-> "approve"] }

Calls == { [ContractAddress |-> c.ContractAddress,
            EntryPointSelector |-> c.EntryPointSelector,
            CallData |-> a] : c \in Callees, a \in ArgLists }

CallLists == UNION { [1..n -> Calls] : n \in 0..MaxCalls }

EncNonces == {Big(0), Big(5), NilBig}

(***************************************************************************)
(* Primitives of the hasher and the signer.                                *)
(***************************************************************************)
TRANSACTION_PREFIX == "invoke"

ChainIDs == {"SN_MAIN", "SN_GOERLI"}

\* caigo.UTF8StrToBig: the bytes of a string as a number.
UTF8StrToBig(str) ==
  CASE str = "invoke" -> Big(201)
    [] str = "SN_MAIN" -> Big(202)
    [] str = "SN_GOERLI" -> Big(203)

\* A field element: a number, not negative.
IsFelt(x) == ~x.isNil /\ ~x.neg

RECURSIVE Mix(_, _)
\* An order-sensitive digest of a sequence of field elements.
Mix(elems, h) ==
  IF Len(elems) = 0 THEN h
  ELSE Mix(Drop(elems, 1),
           (h * 33 + ((elems[1].hi * 31 + elems[1].lo) % 65521) + 1) % 65521)

\* caigo.Curve.ComputeHashOnElements: the hash, or an error when an element
\* is no field element.
ComputeHashOnElements(elems) ==
  IF \A k \in 1..Len(elems) : IsFelt(elems[k])
    THEN [err |-> "", hash |-> Big(Mix(elems, Len(elems)))]
    ELSE [err |-> "hash error", hash |-> NilBig]

\* caigo.Curve.Sign: the pair (r, s) for a message hash and a private key.
CurveSign(msgHash, private) ==
  <<Big((msgHash.lo * 3 + 1) % 1009), Big(((msgHash.lo + private.lo) % 1009) + 1)>>

\* types.HexToHash: the number a hexadecimal address string holds.
HexToHash(str) == ToNat(SNValToBN(str))

(***************************************************************************)
(* The account operations.  ExecuteDetails fields are nil when unset.      *)
(***************************************************************************)
\* An error check of the form  if err != nil { return nil, err }.
StepPcIgnoreErr(err, next) == next

StepPc(err, next) == IF err # "" THEN "Failed" ELSE next

\* HashMultiCall: the seven elements that are hashed.
MultiHashData(address, chainID, details, cdHash) ==
  << UTF8StrToBig(TRANSACTION_PREFIX),
     details.Version,
     SNValToBN(address),
     GetSelectorFromName("__execute__"),
     cdHash,
     details.MaxFee,
     UTF8StrToBig(chainID) >>

\* HashMultiCall: what it returns, with what it hashed, given the calldata
\* hash cd and the hash tx of the seven elements.
HashReturn(chainID, callArray, cd, data, tx) ==
  [ err |-> IF cd.err # "" THEN cd.err ELSE tx.err,
    hash |-> IF cd.err # "" THEN NilBig ELSE tx.hash,
    chainID |-> chainID,
    callArray |-> callArray,
    data |-> IF cd.err # "" THEN <<>> ELSE data ]

HashOfData(chainID, callArray, cd, data) ==
  HashReturn(chainID, callArray, cd, data, ComputeHashOnElements(data))

HashOfCalldata(address, chainID, details, callArray, cd) ==
  HashOfData(chainID, callArray, cd,
             MultiHashData(address, chainID, details, cd.hash))

HashOfArray(address, chainID, details, callArray) ==
  HashOfCalldata(address, chainID, details, callArray,
                 ComputeHashOnElements(callArray))

\* HashMultiCall once the chain identifier is fetched.
HashMultiCall(address, chainID, calls, details) ==
  HashOfArray(address, chainID, details, fmtExecuteCalldata(details.Nonce, calls))

\* Nonce: what the get_nonce result (a list of strings) yields.
NonceOfAcceptEmpty(result) ==
  IF Len(result) = 0 THEN [err |-> "", n |-> Big(0)]
  ELSE LET n == SetString(result[1], 0)
       IN IF n.isNil THEN [err |-> "nonce error", n |-> NilBig]
          ELSE [err |-> "", n |-> n]

NonceOf(result) ==
  IF Len(result) = 0 THEN [err |-> "nonce error", n |-> NilBig]
  ELSE LET n == SetString(result[1], 0)
       IN IF n.isNil THEN [err |-> "nonce error", n |-> NilBig]
          ELSE [err |-> "", n |-> n]

\* The max fee EstimateFee uses when details.MaxFee is unset.
DefaultMaxFeeOff == SetString(<<"0", "x", "2", "0", "0", "0", "0", "0", "0", "0">>, 0)

DefaultMaxFee == SetString(<<"0", "x", "2", "0", "0", "0", "0", "0", "0", "0", "0">>, 0)

\* EstimateFee: the max fee and the version it uses.
EstimateDefaults(details) ==
  [ MaxFee |-> IF details.MaxFee.isNil THEN DefaultMaxFee ELSE details.MaxFee,
    Version |-> IF details.Version.isNil THEN Big(0) ELSE details.Version ]

\* Execute: the max fee from the estimate's parsed overall fee.
FeeNotDoubled(v) == v

FeeFromEstimate(v) == MulAdd(v, 2, 0)

\* The types.Call EstimateFee sends.
EstimateRequest(address, nonce, maxFee, version, sig, calls) ==
  [ MaxFee |-> Hex(maxFee),
    Version |-> Hex(version),
    Signature |-> <<Text(sig[1], 10), Text(sig[2], 10)>>,
    Nonce |-> Hex(nonce),
    ContractAddress |-> HexToHash(address),
    EntryPointSelector |-> "__execute__",
    CallData |-> fmtExecuteCalldataStrings(nonce, calls) ]

\* The arguments Execute hands to AddInvokeTransaction.
InvokeRequestDefaultFee(address, nonce, maxFee, version, sig, calls) ==
  [ ContractAddress |-> HexToHash(address),
    EntryPointSelector |-> "__execute__",
    CallData |-> fmtExecuteCalldataStrings(nonce, calls),
    Signature |-> <<Text(sig[1], 10), Text(sig[2], 10)>>,
    MaxFee |-> Hex(DefaultMaxFee),
    Version |-> Hex(version) ]

InvokeRequest(address, nonce, maxFee, version, sig, calls) ==
  [ ContractAddress |-> HexToHash(address),
    EntryPointSelector |-> "__execute__",
    CallData |-> fmtExecuteCalldataStrings(nonce, calls),
    Signature |-> <<Text(sig[1], 10), Text(sig[2], 10)>>,
    MaxFee |-> Hex(maxFee),
    Version |-> Hex(version) ]

(***************************************************************************)
(* State: the encoder's input and output, the account, the chain, and one  *)
(* record per invocation of Nonce, EstimateFee or Execute.                 *)
(***************************************************************************)
VARIABLES encCalls, encNonce, encPc, encArray, encStrings,
          account, chainNonce, chainID, inv, rpc

encVars == <<encCalls, encNonce, encPc, encArray, encStrings>>

vars == <<encCalls, encNonce, encPc, encArray, encStrings,
          account, chainNonce, chainID, inv, rpc>>

Procs == {"p1", "p2"}

MaxChainNonce == 2

NoDetails == [Nonce |-> NilBig, MaxFee |-> NilBig, Version |-> NilBig]

DetailsSet == [Nonce : {NilBig, Big(7)}, MaxFee : {NilBig, Big(300)},
               Version : {NilBig, Big(1)}]

Transfer(args) ==
  [ContractAddress |-> 26, EntryPointSelector |-> "transfer", CallData |-> args]

Approve(args) ==
  [ContractAddress |-> 7, EntryPointSelector |-> "approve", CallData |-> args]

\* The call lists invocations are made with; the last holds a call-data
\* string that is no number.
PipeCalls == { << Transfer(<< <<"1", "0">>, <<"0", "x", "a">> >>), Approve(<<>>) >>,
               << Approve(<<>>), Transfer(<< <<"0", "x", "1">> >>) >>,
               << Transfer(<< <<"z", "z">> >>) >> }

\* What the fee-estimation method reports as overall fee.
OverallFees == { <<"0", "x", "6", "4">>, <<"1", "5", "0">>, <<"z", "z">> }

\* An invocation that has not taken a step.
NewInvocation(op, calls, details) ==
  [ op |-> op, calls |-> calls, details |-> details, cancelled |-> FALSE,
    pc |-> CASE op = "Nonce" -> "N.Start"
             [] op = "EstimateFee" -> "E.Start"
             [] op = "Execute" -> "Start"
             [] op = "none" -> "idle",
    err |-> "",
    nonce |-> NilBig, maxFee |-> NilBig, version |-> NilBig,
    txHash |-> NilBig, sig |-> <<NilBig, NilBig>>,
    eNonce |-> NilBig, eMaxFee |-> NilBig, eVersion |-> NilBig,
    eTxHash |-> NilBig, eSig |-> <<NilBig, NilBig>>,
    overallFee |-> <<>>,
    steps |-> <<>>, hashIn |-> <<>>, hashes |-> <<>>, signs |-> <<>>,
    estReq |-> <<>>, invReq |-> <<>> ]

Idle == NewInvocation("none", <<>>, NoDetails)

Invocations ==
  {NewInvocation("Nonce", <<>>, NoDetails)}
    \cup { NewInvocation(op, c, d) :
             op \in {"EstimateFee", "Execute"}, c \in PipeCalls, d \in DetailsSet }

Terminal(r) == r.pc \in {"idle", "Done", "Failed", "Submitted"}

InitEncIdle ==
  /\ encCalls = <<>>
  /\ encNonce = NilBig
  /\ encPc = "off"
  /\ encArray = <<>>
  /\ encStrings = <<>>

InitChain ==
  /\ account = [Address |-> <<"0", "x", "2", "a">>, private |-> Big(9)]
  /\ chainNonce = 1
  /\ chainID \in ChainIDs

\* No call of do in flight.
DoIdle == [pc |-> "off", target |-> "", rtErr |-> "", raw |-> <<>>,
           ret |-> "", data |-> <<>>]

\* One invocation at a time.
Init ==
  /\ InitEncIdle
  /\ InitChain
  /\ \E r \in Invocations : inv = [p \in Procs |-> IF p = "p1" THEN r ELSE Idle]
  /\ rpc = DoIdle

(***************************************************************************)
(* Round trips.  A round trip under the caller's context fails once that   *)
(* context is cancelled; one under context.Background() does not see it.   *)
(***************************************************************************)
Step(name, ctx, r, rtErr, raw, err) ==
  [ step |-> name, ctx |-> ctx, cancelled |-> r.cancelled,
    rtErr |-> rtErr, raw |-> raw, err |-> err ]

\* What the get_nonce call can return.
NonceReplies(r) ==
  IF r.cancelled
    THEN {[rtErr |-> "context canceled", raw |-> <<>>]}
    ELSE { [rtErr |-> "rpc error", raw |-> <<>>],
           [rtErr |-> "", raw |-> <<>>],
           [rtErr |-> "", raw |-> << Hex(Big(chainNonce)) >>],
           [rtErr |-> "", raw |-> << <<"z", "z">> >>] }

\* Account.Nonce on a reply: the nonce or the error, and the step taken.
NonceReturn(r, reply, got) ==
  [ n |-> got.n, err |-> got.err,
    step |-> Step("nonce", "caller", r, reply.rtErr, reply.raw, got.err) ]

AccountNonce(r, reply) ==
  NonceReturn(r, reply,
              IF reply.rtErr # "" THEN [err |-> reply.rtErr, n |-> NilBig]
              ELSE NonceOf(reply.raw))

\* What the chain-identifier fetch can return.
ChainIDReplies == {[rtErr |-> "rpc error"], [rtErr |-> ""]}

\* What the fee-estimation call can return.
EstimateReplies(r) ==
  IF r.cancelled
    THEN {[rtErr |-> "context canceled", raw |-> <<>>]}
    ELSE {[rtErr |-> "rpc error", raw |-> <<>>]}
           \cup {[rtErr |-> "", raw |-> <<f>>] : f \in OverallFees}

SubmitReplies == {"rpc error", ""}

SignReplies == {"sign error", ""}

(***************************************************************************)
(* Actions.                                                                *)
(***************************************************************************)
Frame == UNCHANGED <<encVars, account, chainNonce, chainID, rpc>>

\* Nonce(ctx), called by the user.
NonceDone(r, got) ==
  [r EXCEPT !.nonce = got.n, !.err = got.err,
            !.steps = Append(r.steps, got.step),
            !.pc = StepPc(got.err, "Done")]

NonceCall(p) ==
  /\ inv[p].pc = "N.Start"
  /\ \E reply \in NonceReplies(inv[p]) :
       inv' = [inv EXCEPT ![p] = NonceDone(inv[p], AccountNonce(inv[p], reply))]
  /\ Frame

\* EstimateFee: the nonce, the max fee and the version.
EstResolved(r, got, d) ==
  [r EXCEPT !.eNonce = got.n, !.err = got.err,
            !.eMaxFee = IF got.err = "" THEN d.MaxFee ELSE NilBig,
            !.eVersion = IF got.err = "" THEN d.Version ELSE NilBig,
            !.steps = IF r.details.Nonce.isNil THEN Append(r.steps, got.step)
                      ELSE r.steps,
            !.pc = StepPc(got.err, "E.Resolved")]

EstResolve(p) ==
  /\ inv[p].pc = "E.Start"
  /\ IF inv[p].details.Nonce.isNil
       THEN \E reply \in NonceReplies(inv[p]) :
              inv' = [inv EXCEPT ![p] =
                        EstResolved(inv[p], AccountNonce(inv[p], reply),
                                    EstimateDefaults(inv[p].details))]
       ELSE inv' = [inv EXCEPT ![p] =
                      EstResolved(inv[p], [n |-> inv[p].details.Nonce, err |-> ""],
                                  EstimateDefaults(inv[p].details))]
  /\ Frame

\* The steps HashMultiCall adds for a reply of the chain-identifier fetch.
HashSteps(r, reply, h) ==
  IF reply.rtErr # ""
    THEN <<Step("chainID", "background", r, reply.rtErr, <<>>, reply.rtErr)>>
    ELSE <<Step("chainID", "background", r, "", <<>>, ""),
           Step("hash", "none", r, "", <<>>, h.err)>>

\* The error HashMultiCall returns for a reply of the chain-identifier fetch.
HashErr(reply, h) == IF reply.rtErr # "" THEN reply.rtErr ELSE h.err

\* Provider.ChainID on a successful round trip: the identifier of the network
\* the node serves at that moment.
ProviderChainID(served) == served

\* The chain identifier HashMultiCall hashes: the one its own fetch returned.
ChainIDRemembered(r, fetched) ==
  IF Len(r.hashes) > 0 THEN r.hashes[1].chainID ELSE fetched

ChainIDFor(r, fetched) == fetched

\* The arguments and the fetched chain identifier of a call of HashMultiCall.
HashInput(address, fetched, calls, details) ==
  [address |-> address, chainID |-> fetched, calls |-> calls, details |-> details]

\* The details EstimateFee and Execute pass to HashMultiCall.
EstDetails(r) == [Nonce |-> r.eNonce, MaxFee |-> r.eMaxFee, Version |-> r.eVersion]

ExecDetails(r) == [Nonce |-> r.nonce, MaxFee |-> r.maxFee, Version |-> r.version]

\* EstimateFee: the transaction hash.
EstHashed(r, reply, h, in) ==
  [r EXCEPT !.eTxHash = IF HashErr(reply, h) = "" THEN h.hash ELSE NilBig,
            !.err = HashErr(reply, h),
            !.steps = r.steps \o HashSteps(r, reply, h),
            !.hashIn = IF reply.rtErr # "" THEN r.hashIn ELSE Append(r.hashIn, in),
            !.hashes = IF reply.rtErr # "" THEN r.hashes ELSE Append(r.hashes, h),
            !.pc = StepPc(HashErr(reply, h), "E.Hashed")]

EstHash(p) ==
  /\ inv[p].pc = "E.Resolved"
  /\ \E reply \in ChainIDReplies :
       inv' = [inv EXCEPT ![p] =
                 EstHashed(inv[p], reply,
                           HashMultiCall(account.Address,
                                         ChainIDFor(inv[p], ProviderChainID(chainID)),
                                         inv[p].calls, EstDetails(inv[p])),
                           HashInput(account.Address, ProviderChainID(chainID),
                                     inv[p].calls,
                                     EstDetails(inv[p])))]
  /\ Frame

\* EstimateFee: the signature.
EstSign(p) ==
  /\ inv[p].pc = "E.Hashed"
  /\ \E err \in SignReplies :
       LET r == inv[p]
       IN inv' = [inv EXCEPT ![p] =
                    [r EXCEPT !.eSig = IF err = "" THEN CurveSign(r.eTxHash, account.private)
                                       ELSE <<NilBig, NilBig>>,
                              !.err = err,
                              !.steps = Append(r.steps, Step("sign", "none", r, "", <<>>, err)),
                              !.signs = Append(r.signs, r.eTxHash),
                              !.pc = StepPc(err, "E.Signed")]]
  /\ Frame

\* EstimateFee: the fee-estimation round trip, and the return to the caller.
EstSent(r, reply, req) ==
  [r EXCEPT !.overallFee = IF reply.rtErr = "" THEN reply.raw[1] ELSE <<>>,
            !.err = reply.rtErr,
            !.steps = Append(r.steps,
                             Step("estimate", "caller", r, reply.rtErr,
                                  reply.raw, reply.rtErr)),
            !.estReq = Append(r.estReq, req),
            !.pc = StepPc(reply.rtErr,
                          IF r.op = "Execute" THEN "E.Returned" ELSE "Done")]

EstSend(p) ==
  /\ inv[p].pc = "E.Signed"
  /\ \E reply \in EstimateReplies(inv[p]) :
       inv' = [inv EXCEPT ![p] =
                 EstSent(inv[p], reply,
                         EstimateRequest(account.Address, inv[p].eNonce,
                                         inv[p].eMaxFee, inv[p].eVersion,
                                         inv[p].eSig, inv[p].calls))]
  /\ Frame

\* Execute: the nonce.
ExecNonceReserved(r, got) ==
  LET held == {q \in Procs : inv[q].op = "Execute" /\ inv[q].nonce = got.n}
  IN [r EXCEPT !.nonce = IF got.err = "" /\ held # {}
                           THEN MulAdd(got.n, 1, Cardinality(held))
                           ELSE got.n,
               !.err = got.err,
               !.steps = IF r.details.Nonce.isNil THEN Append(r.steps, got.step)
                         ELSE r.steps,
               !.pc = IF got.err = "" THEN "NonceResolved" ELSE "Failed"]

ExecNonceShared(r, got) ==
  LET cached == {q \in Procs : ~inv[q].nonce.isNil}
  IN [r EXCEPT !.nonce = IF got.err = "" /\ cached # {}
                           THEN inv[CHOOSE q \in cached : TRUE].nonce
                           ELSE got.n,
               !.err = got.err,
               !.steps = IF r.details.Nonce.isNil THEN Append(r.steps, got.step)
                         ELSE r.steps,
               !.pc = IF got.err = "" THEN "NonceResolved" ELSE "Failed"]

ExecNonceResolved(r, got) ==
  [r EXCEPT !.nonce = got.n, !.err = got.err,
            !.steps = IF r.details.Nonce.isNil THEN Append(r.steps, got.step)
                      ELSE r.steps,
            !.pc = StepPc(got.err, "NonceResolved")]

ExecResolveNonce(p) ==
  /\ inv[p].pc = "Start"
  /\ IF inv[p].details.Nonce.isNil
       THEN \E reply \in NonceReplies(inv[p]) :
              inv' = [inv EXCEPT ![p] =
                        ExecNonceResolved(inv[p], AccountNonce(inv[p], reply))]
       ELSE inv' = [inv EXCEPT ![p] =
                      ExecNonceResolved(inv[p],
                                        [n |-> inv[p].details.Nonce, err |-> ""])]
  /\ Frame

\* Execute: the version it uses.
ExecVersionZero(details) == Big(0)

ExecVersion(details) == IF details.Version.isNil THEN Big(0) ELSE details.Version

\* Execute: the given max fee, or the call of EstimateFee with the details
\* as given.
ExecResolveFee(p) ==
  /\ inv[p].pc = "NonceResolved"
  /\ LET r == inv[p]
     IN IF r.details.MaxFee.isNil
          THEN inv' = [inv EXCEPT ![p] = [r EXCEPT !.pc = "E.Start"]]
          ELSE inv' = [inv EXCEPT ![p] =
                         [r EXCEPT !.maxFee = r.details.MaxFee,
                                   !.version = ExecVersion(r.details),
                                   !.pc = "FeeResolved"]]
  /\ Frame

\* Execute: the max fee from the estimate EstimateFee returned, v being the
\* parsed overall fee.
ExecFeeParsedKeepHash(r, v, err) ==
  [r EXCEPT !.maxFee = IF v.isNil THEN NilBig ELSE FeeFromEstimate(v),
            !.version = IF v.isNil THEN NilBig ELSE ExecVersion(r.details),
            !.txHash = r.eTxHash,
            !.err = err,
            !.steps = Append(r.steps,
                             Step("feeparse", "none", r, "", <<r.overallFee>>, err)),
            !.pc = IF err = "" THEN "Hashed" ELSE "Failed"]

ExecFeeParsed(r, v, err) ==
  [r EXCEPT !.maxFee = IF v.isNil THEN NilBig ELSE FeeFromEstimate(v),
            !.version = IF v.isNil THEN NilBig ELSE ExecVersion(r.details),
            !.err = err,
            !.steps = Append(r.steps,
                             Step("feeparse", "none", r, "", <<r.overallFee>>, err)),
            !.pc = StepPc(err, "FeeResolved")]

FeeParseErr(v) == IF v.isNil THEN "could not match OverallFee to big.Int" ELSE ""

ExecFeeOf(r, v) == ExecFeeParsed(r, v, FeeParseErr(v))

ExecFeeFromEstimate(p) ==
  /\ inv[p].pc = "E.Returned"
  /\ inv' = [inv EXCEPT ![p] = ExecFeeOf(inv[p], SetString(inv[p].overallFee, 0))]
  /\ Frame

\* Execute: the transaction hash.
ExecHashedReused(r, reply, h, in) ==
  LET g == IF Len(r.hashes) > 0 THEN r.hashes[1] ELSE h
      e == IF reply.rtErr # "" THEN reply.rtErr ELSE g.err
  IN [r EXCEPT !.txHash = IF e = "" THEN g.hash ELSE NilBig,
               !.err = e,
               !.steps = r.steps \o HashSteps(r, reply, g),
               !.hashIn = IF reply.rtErr # "" THEN r.hashIn ELSE Append(r.hashIn, in),
               !.hashes = IF reply.rtErr # "" THEN r.hashes ELSE Append(r.hashes, g),
               !.pc = IF e = "" THEN "Hashed" ELSE "Failed"]

ExecHashed(r, reply, h, in) ==
  [r EXCEPT !.txHash = IF HashErr(reply, h) = "" THEN h.hash ELSE NilBig,
            !.err = HashErr(reply, h),
            !.steps = r.steps \o HashSteps(r, reply, h),
            !.hashIn = IF reply.rtErr # "" THEN r.hashIn ELSE Append(r.hashIn, in),
            !.hashes = IF reply.rtErr # "" THEN r.hashes ELSE Append(r.hashes, h),
            !.pc = StepPc(HashErr(reply, h), "Hashed")]

ExecHash(p) ==
  /\ inv[p].pc = "FeeResolved"
  /\ \E reply \in ChainIDReplies :
       inv' = [inv EXCEPT ![p] =
                 ExecHashed(inv[p], reply,
                            HashMultiCall(account.Address,
                                          ChainIDFor(inv[p], ProviderChainID(chainID)),
                                          inv[p].calls, ExecDetails(inv[p])),
                            HashInput(account.Address, ProviderChainID(chainID),
                                      inv[p].calls,
                                      ExecDetails(inv[p])))]
  /\ Frame

\* Execute: the signature.
ExecSign(p) ==
  /\ inv[p].pc = "Hashed"
  /\ \E err \in SignReplies :
       LET r == inv[p]
       IN inv' = [inv EXCEPT ![p] =
                    [r EXCEPT !.sig = IF err = "" THEN CurveSign(r.txHash, account.private)
                                      ELSE <<NilBig, NilBig>>,
                              !.err = err,
                              !.steps = Append(r.steps, Step("sign", "none", r, "", <<>>, err)),
                              !.signs = Append(r.signs, r.txHash),
                              !.pc = StepPc(err, "Signed")]]
  /\ Frame

\* Execute: the submission, under context.Background().
ExecSubmittedRetry(r, rtErr, req) ==
  [r EXCEPT !.err = rtErr,
            !.steps = Append(r.steps,
                             Step("submit", "background", r, rtErr, <<>>, rtErr)),
            !.invReq = Append(r.invReq, req),
            !.pc = IF rtErr = "" THEN "Submitted" ELSE "Signed"]

ExecSubmitted(r, rtErr, req) ==
  [r EXCEPT !.err = rtErr,
            !.steps = Append(r.steps,
                             Step("submit", "background", r, rtErr, <<>>, rtErr)),
            !.invReq = Append(r.invReq, req),
            !.pc = StepPc(rtErr, "Submitted")]

ExecSubmit(p) ==
  /\ inv[p].pc = "Signed"
  /\ \E rtErr \in SubmitReplies :
       inv' = [inv EXCEPT ![p] =
                 ExecSubmitted(inv[p], rtErr,
                               InvokeRequest(account.Address, inv[p].nonce,
                                             inv[p].maxFee, inv[p].version,
                                             inv[p].sig, inv[p].calls))]
  /\ Frame

\* The caller cancels the context of a running invocation.
Cancel(p) ==
  /\ ~Terminal(inv[p])
  /\ ~inv[p].cancelled
  /\ inv' = [inv EXCEPT ![p].cancelled = TRUE]
  /\ Frame

\* A transaction of the account is accepted on chain: its nonce advances.
ChainAdvance ==
  /\ \E p \in Procs : ~Terminal(inv[p])
  /\ chainNonce < MaxChainNonce
  /\ chainNonce' = chainNonce + 1
  /\ UNCHANGED <<encVars, account, chainID, inv, rpc>>

\* The node the client talks to now serves another network.
ChainSwitch ==
  /\ \E p \in Procs : ~Terminal(inv[p])
  /\ chainID' \in ChainIDs \ {chainID}
  /\ UNCHANGED <<encVars, account, chainNonce, inv, rpc>>

Next ==
  \/ \E p \in Procs :
       \/ NonceCall(p)
       \/ EstResolve(p)
       \/ EstHash(p)
       \/ EstSign(p)
       \/ EstSend(p)
       \/ ExecResolveNonce(p)
       \/ ExecResolveFee(p)
       \/ ExecFeeFromEstimate(p)
       \/ ExecHash(p)
       \/ ExecSign(p)
       \/ ExecSubmit(p)
       \/ Cancel(p)
  \/ ChainAdvance
  \/ ChainSwitch

Spec == Init /\ [][Next]_vars

(***************************************************************************)
(* Two callers invoking EstimateFee or Execute on the same Account at the  *)
(* same time.                                                              *)
(***************************************************************************)
ConcCalls == << Transfer(<< <<"1", "0">>, <<"0", "x", "a">> >>), Approve(<<>>) >>

ConcDetails == [Nonce |-> NilBig, MaxFee |-> Big(300), Version |-> NilBig]

ConcInvocations ==
  { NewInvocation("Execute", ConcCalls, NoDetails),
    NewInvocation("EstimateFee", ConcCalls, ConcDetails) }

InitConc ==
  /\ InitEncIdle
  /\ InitChain
  /\ inv \in [Procs -> ConcInvocations]
  /\ inv["p1"].op = "Execute"
  /\ rpc = DoIdle

NextConc ==
  \/ \E p \in Procs :
       \/ EstResolve(p)
       \/ EstHash(p)
       \/ EstSign(p)
       \/ EstSend(p)
       \/ ExecResolveNonce(p)
       \/ ExecResolveFee(p)
       \/ ExecFeeFromEstimate(p)
       \/ ExecHash(p)
       \/ ExecSign(p)
       \/ ExecSubmit(p)
  \/ ChainAdvance

SpecConc == InitConc /\ [][NextConc]_vars

(***************************************************************************)
(* The encoder applied to every input.                                     *)
(***************************************************************************)
InitEnc ==
  /\ encCalls \in CallLists
  /\ encNonce \in EncNonces
  /\ encPc = "input"
  /\ encArray = <<>>
  /\ encStrings = <<>>
  /\ InitChain
  /\ chainID = "SN_MAIN"
  /\ inv = [p \in Procs |-> Idle]
  /\ rpc = DoIdle

Encode ==
  /\ encPc = "input"
  /\ encArray' = fmtExecuteCalldata(encNonce, encCalls)
  /\ encPc' = "encoded"
  /\ UNCHANGED <<encCalls, encNonce, encStrings, account, chainNonce, chainID, inv, rpc>>

EncodeStrings ==
  /\ encPc = "input"
  /\ encStrings' = fmtExecuteCalldataStrings(encNonce, encCalls)
  /\ encPc' = "strings"
  /\ UNCHANGED <<encCalls, encNonce, encArray, account, chainNonce, chainID, inv, rpc>>

NextEnc == Encode \/ EncodeStrings

SpecEnc == InitEnc /\ [][NextEnc]_vars

(***************************************************************************)
(* The RPC boundary: do performs one remote call and decodes its result.   *)
(* A raw result is a sequence of characters; the JSON it may hold is a     *)
(* number of digits 1, a string between quotes, or an array of at most one *)
(* value.                                                                  *)
(***************************************************************************)
MaxRaw == 4

Quote == "q"

RawChars == {"1", Quote, "[", "]", "x"}

RECURSIVE RawsUpTo(_)
RawsUpTo(n) ==
  IF n = 0 THEN {<<>>}
  ELSE RawsUpTo(n - 1)
         \cup {Append(s, c) : s \in {t \in RawsUpTo(n - 1) : Len(t) = n - 1},
                               c \in RawChars}

Raws == RawsUpTo(MaxRaw)

TransportErrs == {"", "rpc error", "context canceled"}

\* The Go types a caller of do decodes into.
Targets == {"string", "uint64", "[]string"}

errNotFound == "not found"

Inner(s) == SubSeq(s, 2, Len(s) - 1)

IsNumber(s) == Len(s) > 0 /\ \A i \in 1..Len(s) : s[i] = "1"

IsString(s) ==
  /\ Len(s) >= 2
  /\ s[1] = Quote
  /\ s[Len(s)] = Quote
  /\ \A i \in 2..(Len(s) - 1) : s[i] # Quote

RECURSIVE IsValue(_)
IsValue(s) ==
  \/ IsNumber(s)
  \/ IsString(s)
  \/ /\ Len(s) >= 2
     /\ s[1] = "["
     /\ s[Len(s)] = "]"
     /\ (Len(s) = 2 \/ IsValue(Inner(s)))

\* json.Unmarshal(raw, &data): the error, and the value stored in data.
Unmarshal(raw, target) ==
  IF ~IsValue(raw)
    THEN [err |-> "invalid character", data |-> <<>>]
  ELSE IF target = "string" /\ IsString(raw)
    THEN [err |-> "", data |-> <<Inner(raw)>>]
  ELSE IF target = "uint64" /\ IsNumber(raw)
    THEN [err |-> "", data |-> <<DigitsValue(raw, 10)>>]
  ELSE IF target = "[]string" /\ raw = <<"[", "]">>
    THEN [err |-> "", data |-> <<>>]
  ELSE IF target = "[]string" /\ Len(raw) > 2 /\ raw[1] = "[" /\ IsString(Inner(raw))
    THEN [err |-> "", data |-> <<Inner(Inner(raw))>>]
  ELSE [err |-> "cannot unmarshal", data |-> <<>>]

\* do: the error it returns and what it stored in data.
doEmptyIsNil(rtErr, raw, target) ==
  IF rtErr # "" THEN [err |-> rtErr, data |-> <<>>]
  ELSE IF Len(raw) = 0 THEN [err |-> "", data |-> <<>>]
  ELSE Unmarshal(raw, target)

do(rtErr, raw, target) ==
  IF rtErr # "" THEN [err |-> rtErr, data |-> <<>>]
  ELSE IF Len(raw) = 0 THEN [err |-> errNotFound, data |-> <<>>]
  ELSE Unmarshal(raw, target)

DoReturned(target, rtErr, raw, out) ==
  [pc |-> "returned", target |-> target, rtErr |-> rtErr, raw |-> raw,
   ret |-> out.err, data |-> out.data]

InitDo ==
  /\ InitEncIdle
  /\ InitChain
  /\ inv = [p \in Procs |-> Idle]
  /\ rpc \in {[DoIdle EXCEPT !.pc = "call", !.target = t] : t \in Targets}

\* One call of do: the transport's reply, then the checks and the decoding.
Do ==
  /\ rpc.pc = "call"
  /\ \E rtErr \in TransportErrs, raw \in Raws :
       rpc' = DoReturned(rpc.target, rtErr, raw, do(rtErr, raw, rpc.target))
  /\ UNCHANGED <<encVars, account, chainNonce, chainID, inv>>

NextDo == Do

SpecDo == InitDo /\ [][NextDo]_vars

(***************************************************************************)
(* Properties of the encoder.                                              *)
(***************************************************************************)
RECURSIVE AllArgs(_)
\* The parsed arguments of all calls, concatenated in input order.
AllArgs(calls) ==
  IF Len(calls) = 0 THEN <<>>
  ELSE AllArgs(SubSeq(calls, 1, Len(calls) - 1))
         \o [k \in 1..Len(calls[Len(calls)].CallData) |->
               SNValToBN(calls[Len(calls)].CallData[k])]

\* The position in the encoded sequence of the first element of call i.
EntryAt(i) == 4 * (i - 1) + 2

\* The flattened argument buffer read back from an encoded sequence of n calls.
BufferOf(out, n) == SubSeq(out, 4 * n + 3, Len(out) - 1)

\* calls without its i-th element.
Without(calls, i) == SubSeq(calls, 1, i - 1) \o SubSeq(calls, i + 1, Len(calls))

\* C1: the encoded sequence is the call count, then per call in input order
\* (address, selector, data offset, data length), then the total argument
\* count A, then all arguments in input order, then the nonce; its length is
\* 4n + A + 3.
C1_Layout ==
  encPc = "encoded" =>
    LET n == Len(encCalls)
        args == AllArgs(encCalls)
        A == Len(args)
    IN /\ Len(encArray) = 4 * n + A + 3
       /\ encArray[1] = Big(n)
       /\ \A i \in 1..n :
            /\ encArray[EntryAt(i)] = Big(encCalls[i].ContractAddress)
            /\ encArray[EntryAt(i) + 1]
                 = GetSelectorFromName(encCalls[i].EntryPointSelector)
            /\ ~encArray[EntryAt(i) + 2].isNil
            /\ encArray[EntryAt(i) + 3] = Big(Len(encCalls[i].CallData))
       /\ encArray[4 * n + 2] = Big(A)
       /\ \A k \in 1..A : encArray[4 * n + 2 + k] = args[k]
       /\ encArray[Len(encArray)] = encNonce

C1_Witness ==
  /\ encPc = "encoded"
  /\ Len(encCalls) = 3
  /\ Len(encCalls[1].CallData) = 2
  /\ Len(encCalls[2].CallData) = 3
  /\ Len(encArray) = 4 * 3 + 5 + 3
  /\ encNonce = Big(5)

\* C2: reading, for each call, the slice of the flattened buffer at the call's
\* recorded offset and of its recorded length gives back the call's arguments,
\* and the offset of a call with arguments is the number of arguments of the
\* calls before it.
C2_RoundTrip ==
  encPc = "encoded" =>
    LET n == Len(encCalls)
        buffer == BufferOf(encArray, n)
    IN \A i \in 1..n :
         LET off == ToNat(encArray[EntryAt(i) + 2])
             len == ToNat(encArray[EntryAt(i) + 3])
         IN /\ off + len <= Len(buffer)
            /\ SubSeq(buffer, off + 1, off + len) = AllArgs(<<encCalls[i]>>)
            /\ Len(encCalls[i].CallData) > 0
                 => off = Len(AllArgs(SubSeq(encCalls, 1, i - 1)))

C2_Witness ==
  /\ encPc = "encoded"
  /\ Len(encCalls) = 3
  /\ Len(encCalls[1].CallData) = 2
  /\ Len(encCalls[2].CallData) = 0
  /\ Len(encCalls[3].CallData) = 3
  /\ encArray[EntryAt(3) + 2] = Big(2)
  /\ SubSeq(BufferOf(encArray, 3), 3, 5) = <<Big(7), Big(31), Big(2)>>

\* C3: a call without arguments contributes (0, 0) whatever the buffer holds,
\* and the offsets of the other calls and the buffer are those of the list
\* without that call.
C3_ZeroArgs ==
  encPc = "encoded" =>
    \A i \in 1..Len(encCalls) :
      Len(encCalls[i].CallData) = 0 =>
        LET n == Len(encCalls)
            other == fmtExecuteCalldata(encNonce, Without(encCalls, i))
        IN /\ encArray[EntryAt(i) + 2] = Big(0)
           /\ encArray[EntryAt(i) + 3] = Big(0)
           /\ \A j \in 1..(i - 1) :
                encArray[EntryAt(j) + 2] = other[EntryAt(j) + 2]
           /\ \A j \in (i + 1)..n :
                encArray[EntryAt(j) + 2] = other[EntryAt(j - 1) + 2]
           /\ encArray[4 * n + 2] = other[4 * (n - 1) + 2]
           /\ BufferOf(encArray, n) = BufferOf(other, n - 1)

C3_Witness ==
  /\ encPc = "encoded"
  /\ Len(encCalls) = 3
  /\ Len(encCalls[1].CallData) = 1
  /\ Len(encCalls[2].CallData) = 0
  /\ Len(encCalls[3].CallData) = 2
  /\ encArray[EntryAt(2) + 2] = Big(0)
  /\ encArray[EntryAt(3) + 2] = Big(1)

\* Some call-data string of the calls is no number.
HasUnparseable(calls) ==
  \E i \in 1..Len(calls) :
    \E k \in 1..Len(calls[i].CallData) : SNValToBN(calls[i].CallData[k]).isNil

\* C9: when a call-data string cannot be parsed the encoder fails and
\* produces no encoded sequence.
C9_EncoderError ==
  /\ (encPc = "encoded" /\ HasUnparseable(encCalls)) => encArray = <<>>
  /\ (encPc = "strings" /\ HasUnparseable(encCalls)) => encStrings = <<>>

(***************************************************************************)
(* Properties of the account operations.                                   *)
(***************************************************************************)
\* The positions of the steps of the given kind in an invocation.
StepsOf(r, name) == {k \in 1..Len(r.steps) : r.steps[k].step = name}

\* The position of the last step of the given kind (0 when there is none).
LastOf(r, name) ==
  IF StepsOf(r, name) = {} THEN 0
  ELSE CHOOSE k \in StepsOf(r, name) : \A j \in StepsOf(r, name) : j <= k

HexDefaultFee == <<"0", "x", "2", "0", "0", "0", "0", "0", "0", "0", "0">>

\* C4: the transaction EstimateFee hashes, signs and sends has the nonce the
\* nonce read returned, max fee 0x200000000 and version 0 where the details
\* leave them unset, and the given value where they set it.
C4_FeeDefaults ==
  \A p \in Procs :
    LET r == inv[p]
    IN Len(r.estReq) > 0 =>
         LET d == r.details
             req == r.estReq[1]
             h == r.hashes[1]
             N == IF d.Nonce.isNil
                    THEN SetString(r.steps[LastOf(r, "nonce")].raw[1], 0)
                    ELSE d.Nonce
             fee == IF d.MaxFee.isNil THEN HexDefaultFee ELSE Hex(d.MaxFee)
             version == IF d.Version.isNil THEN <<"0", "x", "0">> ELSE Hex(d.Version)
         IN /\ ~N.isNil
            /\ req.Nonce = Hex(N)
            /\ req.MaxFee = fee
            /\ req.Version = version
            /\ h.callArray[Len(h.callArray)] = N
            /\ Hex(h.data[6]) = fee
            /\ Hex(h.data[2]) = version
            /\ r.signs[1] = h.hash
            /\ req.CallData[Len(req.CallData)] = Hex(N)

C4_Witness ==
  /\ inv["p1"].op = "EstimateFee"
  /\ inv["p1"].details = NoDetails
  /\ inv["p1"].pc = "Done"
  /\ inv["p1"].estReq[1].Nonce = <<"0", "x", "2">>
  /\ inv["p1"].estReq[1].MaxFee = HexDefaultFee
  /\ inv["p1"].estReq[1].Version = <<"0", "x", "0">>

\* C5: when Execute is called without a max fee and the estimate reports the
\* overall fee F, the hashed, signed and submitted max fee is 2 * F (0x64
\* gives 0xc8); when F cannot be parsed Execute fails and submits nothing.
C5_DoubledFee ==
  \A p \in Procs :
    LET r == inv[p]
        e == LastOf(r, "estimate")
    IN (r.op = "Execute" /\ r.details.MaxFee.isNil /\ e > 0 /\ r.steps[e].rtErr = "") =>
         LET F == SetString(r.steps[e].raw[1], 0)
         IN /\ (F.isNil /\ Len(r.steps) > e) =>
                 /\ r.pc = "Failed"
                 /\ r.err = "could not match OverallFee to big.Int"
                 /\ Len(r.invReq) = 0
                 /\ Len(r.hashes) = 1
            /\ (Len(r.hashes) > 1 /\ r.hashes[2].err = "") =>
                 /\ Quot(r.hashes[2].data[6], 2) = F
                 /\ Rem(r.hashes[2].data[6], 2) = 0
            /\ Len(r.signs) > 1 => r.signs[2] = r.hashes[2].hash
            /\ Len(r.invReq) > 0 =>
                 /\ r.invReq[1].MaxFee = Hex(r.hashes[2].data[6])
                 /\ r.steps[e].raw[1] = <<"0", "x", "6", "4">>
                      => r.invReq[1].MaxFee = <<"0", "x", "c", "8">>

C5_Witness ==
  /\ inv["p1"].op = "Execute"
  /\ inv["p1"].details.MaxFee.isNil
  /\ inv["p1"].pc = "Submitted"
  /\ inv["p1"].overallFee = <<"0", "x", "6", "4">>
  /\ inv["p1"].invReq[1].MaxFee = <<"0", "x", "c", "8">>

\* C6: a nonce read fails exactly when the call fails, returns no data or
\* returns a string that is no integer; and then EstimateFee and Execute fail
\* with that error before any chain-identifier fetch, hashing, signing,
\* estimation or submission.
C6_NonceFailure ==
  \A p \in Procs :
    LET r == inv[p]
    IN \A k \in StepsOf(r, "nonce") :
         LET st == r.steps[k]
             bad == \/ st.rtErr # ""
                    \/ Len(st.raw) = 0
                    \/ SetString(st.raw[1], 0).isNil
         IN /\ (st.err # "") = bad
            /\ bad =>
                 /\ r.pc = "Failed"
                 /\ r.err = st.err
                 /\ r.err = IF st.rtErr # "" THEN st.rtErr ELSE "nonce error"
                 /\ \A j \in 1..Len(r.steps) : r.steps[j].step = "nonce"
                 /\ Len(r.hashes) = 0
                 /\ Len(r.signs) = 0
                 /\ Len(r.estReq) = 0
                 /\ Len(r.invReq) = 0
            /\ (~bad /\ r.op = "Nonce") =>
                 /\ r.pc = "Done"
                 /\ r.nonce = SetString(st.raw[1], 0)

C6_Witness ==
  /\ inv["p1"].op = "Execute"
  /\ inv["p1"].details.Nonce.isNil
  /\ inv["p1"].pc = "Failed"
  /\ Len(inv["p1"].steps) = 2
  /\ inv["p1"].steps[2].step = "nonce"
  /\ inv["p1"].steps[2].rtErr = ""
  /\ Len(inv["p1"].steps[2].raw) = 0
  /\ inv["p1"].err = "nonce error"

\* C7: in Execute a failing step is the last step taken, its error is the
\* error returned, and the submission is made only when every step before it
\* succeeded.
C7_NoPartialSuccess ==
  \A p \in Procs :
    LET r == inv[p]
    IN r.op = "Execute" =>
         /\ \A k \in 1..Len(r.steps) :
              r.steps[k].err # "" =>
                /\ k = Len(r.steps)
                /\ r.pc = "Failed"
                /\ r.err = r.steps[k].err
                /\ r.steps[k].step # "submit" => Len(r.invReq) = 0
         /\ r.pc = "Failed" => (Len(r.steps) > 0 /\ r.steps[Len(r.steps)].err # "")
         /\ Len(r.invReq) <= 1
         /\ Len(r.invReq) = 1 =>
              /\ r.steps[Len(r.steps)].step = "submit"
              /\ \A k \in 1..(Len(r.steps) - 1) : r.steps[k].err = ""
              /\ ~r.nonce.isNil /\ ~r.maxFee.isNil /\ ~r.version.isNil
              /\ r.hashes[Len(r.hashes)].err = ""
              /\ r.signs[Len(r.signs)] = r.hashes[Len(r.hashes)].hash
              /\ r.sig = CurveSign(r.txHash, account.private)
         /\ r.pc = "Submitted" => Len(r.invReq) = 1

C7_Witness ==
  /\ inv["p1"].op = "Execute"
  /\ inv["p1"].pc = "Failed"
  /\ Len(inv["p1"].signs) = 2
  /\ inv["p1"].steps[Len(inv["p1"].steps)].step = "sign"
  /\ inv["p1"].err = "sign error"
  /\ Len(inv["p1"].invReq) = 0

\* C8: every round trip is made under the caller's context, so that no round
\* trip issued after the caller cancelled the context completes.
C8_Cancellation ==
  \A p \in Procs :
    \A k \in 1..Len(inv[p].steps) :
      LET st == inv[p].steps[k]
      IN (st.ctx # "none" /\ st.cancelled) => (st.ctx = "caller" /\ st.rtErr # "")

\* C10: the request Execute hands to the submission has the sender address,
\* the __execute__ selector, the calldata in hexadecimal, the signature as
\* two base-10 strings, and the max fee, the version and the nonce the
\* invocation resolved, each as a field of its own.
C10_Payload ==
  \A p \in Procs :
    LET r == inv[p]
    IN Len(r.invReq) > 0 =>
         LET q == r.invReq[1]
         IN /\ {"ContractAddress", "EntryPointSelector", "CallData", "Signature",
                "MaxFee", "Version", "Nonce"} \subseteq DOMAIN q
            /\ q.ContractAddress = HexToHash(account.Address)
            /\ q.EntryPointSelector = "__execute__"
            /\ q.CallData = fmtExecuteCalldataStrings(r.nonce, r.calls)
            /\ q.Signature = <<Text(r.sig[1], 10), Text(r.sig[2], 10)>>
            /\ q.MaxFee = Hex(r.maxFee)
            /\ q.Version = Hex(r.version)
            /\ q.Nonce = Hex(r.nonce)

\* The computations of HashMultiCall an invocation made that got a chain
\* identifier.
HashCalls(r) == 1..Len(r.hashIn)

OwnNonces(r) ==
  (IF r.details.Nonce.isNil THEN {} ELSE {r.details.Nonce})
    \cup {NonceOf(r.steps[k].raw).n :
             k \in {j \in StepsOf(r, "nonce") : r.steps[j].err = ""}}

\* The max fees an invocation was given, defaulted to, or derived from an
\* estimate it received itself.
OwnFees(r) ==
  (IF r.details.MaxFee.isNil THEN {DefaultMaxFee} ELSE {r.details.MaxFee})
    \cup {FeeFromEstimate(SetString(r.steps[k].raw[1], 0)) :
             k \in {j \in StepsOf(r, "estimate") : r.steps[j].err = ""}}

\* The signatures over the hashes an invocation computed itself.
OwnSignatures(r) ==
  {<<Text(CurveSign(r.hashes[i].hash, account.private)[1], 10),
     Text(CurveSign(r.hashes[i].hash, account.private)[2], 10)>> :
     i \in {j \in HashCalls(r) : r.hashes[j].err = ""}}

\* A request carries the invocation's own calls under one of its own nonces,
\* one of its own fees and a signature over one of its own hashes.
OwnRequest(r, q) ==
  /\ \E n \in OwnNonces(r) : q.CallData = fmtExecuteCalldataStrings(n, r.calls)
  /\ \E f \in OwnFees(r) : q.MaxFee = Hex(f)
  /\ q.Version = Hex(ExecVersion(r.details))
  /\ q.Signature \in OwnSignatures(r)
  /\ q.ContractAddress = HexToHash(account.Address)

\* C12: whatever the interleaving of concurrent Execute and EstimateFee
\* invocations, what each invocation hashes, signs and sends is built from
\* its own calls, its own details and the replies to its own round trips,
\* and the account keeps the address and the key it was constructed with.
C12_Independent ==
  /\ account = [Address |-> <<"0", "x", "2", "a">>, private |-> Big(9)]
  /\ \A p \in Procs :
       LET r == inv[p]
       IN /\ ~r.nonce.isNil => r.nonce \in OwnNonces(r)
          /\ ~r.eNonce.isNil => r.eNonce \in OwnNonces(r)
          /\ ~r.maxFee.isNil => r.maxFee \in OwnFees(r)
          /\ \A i \in HashCalls(r) :
               /\ r.hashIn[i].address = account.Address
               /\ r.hashIn[i].calls = r.calls
               /\ r.hashIn[i].details.Nonce \in OwnNonces(r)
               /\ r.hashIn[i].details.MaxFee \in OwnFees(r)
               /\ r.hashIn[i].details.Version = ExecVersion(r.details)
          /\ \A i \in 1..Len(r.signs) :
               \E j \in HashCalls(r) : r.signs[i] = r.hashes[j].hash
          /\ \A i \in 1..Len(r.estReq) : OwnRequest(r, r.estReq[i])
          /\ \A i \in 1..Len(r.invReq) : OwnRequest(r, r.invReq[i])

\* Two concurrent Execute invocations have both submitted, each under the
\* nonce and the fee of its own round trips, which differ.
C12_Witness ==
  /\ \A p \in Procs : inv[p].op = "Execute" /\ inv[p].pc = "Submitted"
  /\ inv["p1"].details = NoDetails
  /\ inv["p2"].details = NoDetails
  /\ inv["p1"].nonce # inv["p2"].nonce
  /\ inv["p1"].maxFee # inv["p2"].maxFee

\* C13: do returns the transport's error unchanged when the remote call
\* fails, the not-found error when the call succeeds with a zero-length
\* result, and no error only when the call succeeded with a non-empty result
\* that decodes into the caller's value.
C13_DoResult ==
  rpc.pc = "returned" =>
    /\ rpc.rtErr # "" => rpc.ret = rpc.rtErr
    /\ rpc.rtErr = "" /\ Len(rpc.raw) = 0 => rpc.ret = errNotFound
    /\ rpc.ret = "" =>
         /\ rpc.rtErr = ""
         /\ Len(rpc.raw) > 0
         /\ IsValue(rpc.raw)
         /\ \/ rpc.target = "string" /\ rpc.raw[1] = Quote
            \/ rpc.target = "uint64" /\ rpc.raw[1] = "1"
            \/ rpc.target = "[]string" /\ rpc.raw[1] = "["
    /\ rpc.rtErr = "" /\ Len(rpc.raw) > 0 /\ ~IsValue(rpc.raw) => rpc.ret # ""

\* The remote call succeeded with a zero-length result and do returned the
\* not-found error.
C13_Witness ==
  /\ rpc.pc = "returned"
  /\ rpc.rtErr = ""
  /\ rpc.raw = <<>>
  /\ rpc.ret = errNotFound

\* The moves of an Execute invocation through its pipeline; the states
\* E.* are those of the call of EstimateFee that resolves the fee.
ExecEdges ==
  { <<"Start", "NonceResolved">>,
    <<"NonceResolved", "FeeResolved">>,
    <<"NonceResolved", "E.Start">>,
    <<"E.Start", "E.Resolved">>,
    <<"E.Resolved", "E.Hashed">>,
    <<"E.Hashed", "E.Signed">>,
    <<"E.Signed", "E.Returned">>,
    <<"E.Returned", "FeeResolved">>,
    <<"FeeResolved", "Hashed">>,
    <<"Hashed", "Signed">>,
    <<"Signed", "Submitted">> }
    \cup {<<a, "Failed">> : a \in {"Start", "NonceResolved", "E.Start", "E.Resolved",
                                    "E.Hashed", "E.Signed", "E.Returned",
                                    "FeeResolved", "Hashed", "Signed"}}

\* A submitted Execute: the submission is its last step and its only one,
\* it directly follows the signature, the signature is over the last hash,
\* that hash is over the final nonce, max fee and version, and the nonce
\* and the fee were resolved before that hash was computed.
ExecSubmittedInOrder(r) ==
  /\ StepsOf(r, "submit") = {Len(r.steps)}
  /\ Len(r.steps) >= 4
  /\ r.steps[Len(r.steps) - 1].step = "sign"
  /\ r.steps[Len(r.steps) - 2].step = "hash"
  /\ r.steps[Len(r.steps) - 3].step = "chainID"
  /\ \A k \in 1..Len(r.steps) : r.steps[k].err = ""
  /\ Len(r.signs) > 0
  /\ Len(r.hashes) > 0
  /\ r.signs[Len(r.signs)] = r.hashes[Len(r.hashes)].hash
  /\ r.hashIn[Len(r.hashIn)].details = ExecDetails(r)
  /\ ~r.nonce.isNil /\ ~r.maxFee.isNil /\ ~r.version.isNil
  /\ r.sig = CurveSign(r.hashes[Len(r.hashes)].hash, account.private)
  /\ r.details.Nonce.isNil => r.steps[1].step = "nonce"
  /\ \A k \in StepsOf(r, "nonce") \cup StepsOf(r, "estimate")
                \cup StepsOf(r, "feeparse") : k < Len(r.steps) - 3
  /\ \A k \in StepsOf(r, "estimate") \cup StepsOf(r, "feeparse") : k > 1

\* C14: an Execute invocation moves only along Start, NonceResolved,
\* FeeResolved, Hashed, Signed, Submitted (through the fee estimation
\* between NonceResolved and FeeResolved when the fee is not given) or to
\* failure, and on reaching Submitted the submission is the last step, made
\* after the signature over the hash of the final nonce, fee and version.
C14_PipelineOrder ==
  [][\A p \in Procs :
       (inv[p].op = "Execute" /\ inv'[p].pc # inv[p].pc) =>
         /\ <<inv[p].pc, inv'[p].pc>> \in ExecEdges
         /\ inv'[p].pc = "Submitted" => ExecSubmittedInOrder(inv'[p])]_vars

\* An Execute that had to read the nonce and estimate the fee has submitted.
C14_Witness ==
  \E p \in Procs :
    /\ inv[p].op = "Execute"
    /\ inv[p].pc = "Submitted"
    /\ inv[p].details.Nonce.isNil
    /\ inv[p].details.MaxFee.isNil
    /\ Len(inv[p].hashes) = 2

\* The chain-identifier round trips of an invocation that succeeded.
ChainIDFetched(r) == {k \in StepsOf(r, "chainID") : r.steps[k].err = ""}

\* One successful chain-identifier round trip per hash computation, directly
\* before it; a failed one ends the invocation with its error, and nothing
\* is signed that is not the result of a hash computation.
ChainIDPerHash(r) ==
  /\ Cardinality(ChainIDFetched(r)) = Len(r.hashes)
  /\ \A k \in StepsOf(r, "hash") : k > 1 /\ (k - 1) \in ChainIDFetched(r)
  /\ \A k \in StepsOf(r, "chainID") \ ChainIDFetched(r) :
       /\ k = Len(r.steps)
       /\ r.pc = "Failed"
       /\ r.err = r.steps[k].rtErr
       /\ r.err # ""
       /\ Len(r.signs) < Cardinality(StepsOf(r, "chainID"))
  /\ Len(r.signs) <= Len(r.hashes)
  /\ \A i \in 1..Len(r.signs) : r.signs[i] = r.hashes[i].hash /\ r.hashes[i].err = ""

C16_FallbacksOnlyUnset ==
  \A p \in Procs :
    LET r == inv[p]
        d == r.details
    IN r.op = "Execute" =>
         /\ ~d.MaxFee.isNil =>
              /\ StepsOf(r, "estimate") = {}
              /\ StepsOf(r, "feeparse") = {}
              /\ Len(r.estReq) = 0
              /\ r.pc \in {"FeeResolved", "Hashed", "Signed", "Submitted"} =>
                   r.maxFee = d.MaxFee
              /\ \A i \in HashCalls(r) : r.hashIn[i].details.MaxFee = d.MaxFee
              /\ \A i \in HashCalls(r) :
                   r.hashes[i].err = "" => r.hashes[i].data[6] = d.MaxFee
              /\ \A i \in 1..Len(r.invReq) : r.invReq[i].MaxFee = Hex(d.MaxFee)
         /\ ~d.Nonce.isNil =>
              /\ StepsOf(r, "nonce") = {}
              /\ r.pc \notin {"Start", "Failed"} => r.nonce = d.Nonce
              /\ \A i \in HashCalls(r) :
                   /\ r.hashIn[i].details.Nonce = d.Nonce
                   /\ r.hashes[i].callArray[Len(r.hashes[i].callArray)] = d.Nonce
              /\ \A i \in 1..Len(r.invReq) :
                   r.invReq[i].CallData[Len(r.invReq[i].CallData)] = Hex(d.Nonce)
         /\ \A i \in HashCalls(r) :
              /\ r.hashIn[i].details.Version
                   = (IF d.Version.isNil THEN Big(0) ELSE d.Version)
              /\ r.hashes[i].err = "" => r.hashes[i].data[2] = r.hashIn[i].details.Version
         /\ \A i \in 1..Len(r.invReq) :
              r.invReq[i].Version = Hex(IF d.Version.isNil THEN Big(0) ELSE d.Version)

\* An Execute given nonce, max fee and version has submitted them without a
\* nonce read or a fee estimation.
C16_Witness ==
  \E p \in Procs :
    /\ inv[p].op = "Execute"
    /\ inv[p].pc = "Submitted"
    /\ inv[p].details = [Nonce |-> Big(7), MaxFee |-> Big(300), Version |-> Big(1)]
    /\ inv[p].invReq[1].MaxFee = <<"0", "x", "1", "2", "c">>
    /\ inv[p].invReq[1].Version = <<"0", "x", "1">>
    /\ StepsOf(inv[p], "nonce") = {}
    /\ StepsOf(inv[p], "estimate") = {}

\* The nonce a submitted request carries: the last element of its calldata.
SubmittedNonce(q) == q.CallData[Len(q.CallData)]

\* The invocation r has read the nonce the invocation o holds.
SameNonceRead(r, o) == r.pc = "NonceResolved" /\ r.nonce = o.nonce

\* The invocation r has submitted under the nonce o has submitted under.
SameNonceSubmitted(r, o) ==
  /\ r.pc = "Submitted"
  /\ SubmittedNonce(r.invReq[Len(r.invReq)]) = SubmittedNonce(o.invReq[1])

\* C17: nothing keeps a second Execute with unset nonce from the nonce a
\* concurrent Execute already holds or has already submitted: while the
\* on-chain nonce is still the one the other invocation read, its own read
\* can return that same nonce, and once it has signed, its submission can
\* go out with it whatever the other invocation has submitted.
C17_NonceRace ==
  \A p \in Procs : \A q \in Procs \ {p} :
    /\ ( /\ inv[p].op = "Execute"
         /\ inv[p].pc = "Start"
         /\ inv[p].details.Nonce.isNil
         /\ inv[q].op = "Execute"
         /\ inv[q].nonce = Big(chainNonce) )
         => \E reply \in NonceReplies(inv[p]) :
              SameNonceRead(ExecNonceResolved(inv[p], AccountNonce(inv[p], reply)),
                            inv[q])
    /\ ( /\ inv[p].op = "Execute"
         /\ inv[p].pc = "Signed"
         /\ inv[q].pc = "Submitted"
         /\ inv[q].nonce = inv[p].nonce )
         => \E rtErr \in SubmitReplies :
              SameNonceSubmitted(
                ExecSubmitted(inv[p], rtErr,
                              InvokeRequest(account.Address, inv[p].nonce,
                                            inv[p].maxFee, inv[p].version,
                                            inv[p].sig, inv[p].calls)),
                inv[q])

\* Two concurrent Execute invocations with unset nonce have both submitted
\* a transaction carrying the same nonce.
C17_Witness ==
  /\ \A p \in Procs :
       /\ inv[p].op = "Execute"
       /\ inv[p].details.Nonce.isNil
       /\ inv[p].pc = "Submitted"
       /\ Len(inv[p].invReq) = 1
  /\ inv["p1"].nonce = inv["p2"].nonce
  /\ SubmittedNonce(inv["p1"].invReq[1]) = SubmittedNonce(inv["p2"].invReq[1])
  /\ SubmittedNonce(inv["p1"].invReq[1]) = Hex(inv["p1"].nonce)

\* The request q sends what the hash computation h hashed and the signature
\* over its hash: the call array element for element in hexadecimal, and
\* the max fee and the version that entered the hash.
SendsWhatWasSigned(q, h, signed) ==
  /\ h.err = ""
  /\ signed = h.hash
  /\ Len(q.CallData) = Len(h.callArray)
  /\ \A k \in 1..Len(h.callArray) : q.CallData[k] = Hex(h.callArray[k])
  /\ q.MaxFee = Hex(h.data[6])
  /\ q.Version = Hex(h.data[2])
  /\ q.Signature = <<Text(CurveSign(h.hash, account.private)[1], 10),
                      Text(CurveSign(h.hash, account.private)[2], 10)>>

\* C18: the request of every fee estimation and of every submission carries
\* the calldata, the max fee and the version that entered the transaction
\* hash that was signed for it, and the signature over that hash.
C18_SignatureBinds ==
  \A p \in Procs :
    LET r == inv[p]
    IN /\ Len(r.estReq) <= 1
       /\ Len(r.invReq) <= 1
       /\ Len(r.estReq) = 1 =>
            /\ SendsWhatWasSigned(r.estReq[1], r.hashes[1], r.signs[1])
            /\ r.estReq[1].Nonce = Hex(r.hashes[1].callArray[Len(r.hashes[1].callArray)])
       /\ Len(r.invReq) = 1 =>
            SendsWhatWasSigned(r.invReq[1], r.hashes[Len(r.hashes)],
                               r.signs[Len(r.signs)])

\* An Execute has submitted after estimating its fee: two requests went out,
\* each under its own max fee and its own signature.
C18_Witness ==
  \E p \in Procs :
    /\ inv[p].pc = "Submitted"
    /\ Len(inv[p].estReq) = 1
    /\ Len(inv[p].invReq) = 1
    /\ inv[p].estReq[1].MaxFee # inv[p].invReq[1].MaxFee
    /\ inv[p].estReq[1].Signature # inv[p].invReq[1].Signature
    /\ Len(inv[p].invReq[1].CallData) > 6

\* C19: in an Execute with neither nonce nor max fee given, the transaction
\* whose fee was estimated and the transaction then submitted carry the
\* same nonce, whatever happens to the on-chain nonce in between.
C19_SameNonce ==
  \A p \in Procs :
    LET r == inv[p]
    IN ( /\ r.op = "Execute"
         /\ r.details.Nonce.isNil
         /\ r.details.MaxFee.isNil
         /\ Len(r.estReq) = 1
         /\ Len(r.invReq) = 1 )
         => /\ r.estReq[1].Nonce = SubmittedNonce(r.invReq[1])
            /\ SubmittedNonce(r.estReq[1]) = SubmittedNonce(r.invReq[1])
            /\ r.eNonce = r.nonce

\* The kinds of step that are network round trips.
RoundTripKinds == {"nonce", "chainID", "estimate", "submit"}

\* The round trips an invocation has made, in order.
RECURSIVE RoundTripsIn(_)
RoundTripsIn(steps) ==
  IF Len(steps) = 0 THEN <<>>
  ELSE IF steps[Len(steps)].step \in RoundTripKinds
    THEN Append(RoundTripsIn(SubSeq(steps, 1, Len(steps) - 1)), steps[Len(steps)].step)
  ELSE RoundTripsIn(SubSeq(steps, 1, Len(steps) - 1))

\* The round trips of EstimateFee with the given details, in order.
EstimatePlan(d) ==
  (IF d.Nonce.isNil THEN <<"nonce">> ELSE <<>>) \o <<"chainID", "estimate">>

\* The round trips of a complete invocation, in order.
RoundTripPlan(r) ==
  IF r.op = "Nonce" THEN <<"nonce">>
  ELSE IF r.op = "EstimateFee" THEN EstimatePlan(r.details)
  ELSE IF r.op = "Execute"
    THEN (IF r.details.Nonce.isNil THEN <<"nonce">> ELSE <<>>)
           \o (IF r.details.MaxFee.isNil THEN EstimatePlan(r.details) ELSE <<>>)
           \o <<"chainID", "submit">>
  ELSE <<>>

IsPrefix(s, t) == Len(s) <= Len(t) /\ s = SubSeq(t, 1, Len(s))

\* How far an invocation is through its pipeline.
Rank(pc) ==
  CASE pc \in {"idle", "N.Start", "Start"} -> 0
    [] pc = "NonceResolved" -> 1
    [] pc = "E.Start" -> 2
    [] pc = "E.Resolved" -> 3
    [] pc = "E.Hashed" -> 4
    [] pc = "E.Signed" -> 5
    [] pc = "E.Returned" -> 6
    [] pc = "FeeResolved" -> 7
    [] pc = "Hashed" -> 8
    [] pc = "Signed" -> 9
    [] pc \in {"Done", "Failed", "Submitted"} -> 10

\* At most one submission and none outside Execute; the round trips made
\* are an initial part of the invocation's plan, all of it once it succeeded;
\* a step that failed is the last one.
RoundTripsBounded(r) ==
  /\ Cardinality(StepsOf(r, "submit")) <= (IF r.op = "Execute" THEN 1 ELSE 0)
  /\ Len(r.invReq) = Cardinality(StepsOf(r, "submit"))
  /\ IsPrefix(RoundTripsIn(r.steps), RoundTripPlan(r))
  /\ Len(RoundTripsIn(r.steps)) <= 6
  /\ r.pc \in {"Done", "Submitted"} => RoundTripsIn(r.steps) = RoundTripPlan(r)
  /\ \A k \in 1..Len(r.steps) :
       r.steps[k].err # "" => k = Len(r.steps) /\ r.pc = "Failed"

\* The positions at which an invocation has a next step to take.
StepGuards ==
  {"N.Start", "E.Start", "E.Resolved", "E.Hashed", "E.Signed", "E.Returned",
   "Start", "NonceResolved", "FeeResolved", "Hashed", "Signed"}

\* C20: an Execute makes at most one submission round trip and Nonce and
\* EstimateFee make none; no round trip follows a failed step; the round
\* trips of an invocation are at most those of its plan (for Execute: nonce
\* read, then nonce read, chain-identifier fetch and fee estimation inside
\* EstimateFee, then chain-identifier fetch and submission); every step
\* takes the invocation further, and an invocation that has not ended is at
\* a position from which its next step is taken.
C20_OneSubmission ==
  [][\A p \in Procs :
       /\ RoundTripsBounded(inv[p])
       /\ RoundTripsBounded(inv'[p])
       /\ inv'[p].steps # inv[p].steps =>
            /\ Rank(inv'[p].pc) > Rank(inv[p].pc)
            /\ Len(inv'[p].steps) > Len(inv[p].steps)
       /\ inv'[p].pc # inv[p].pc => Rank(inv'[p].pc) > Rank(inv[p].pc)
       /\ ~Terminal(inv'[p]) => inv'[p].pc \in StepGuards]_vars

\* An Execute that read the nonce and estimated the fee has submitted after
\* six round trips, the last of them the only submission.
C20_Witness ==
  \E p \in Procs :
    /\ inv[p].op = "Execute"
    /\ inv[p].pc = "Submitted"
    /\ RoundTripsIn(inv[p].steps)
         = <<"nonce", "nonce", "chainID", "estimate", "chainID", "submit">>
    /\ Cardinality(StepsOf(inv[p], "submit")) = 1

\* Formatting and parsing agree on the numbers of the model.
TextChecks ==
  /\ Hex(SetString(<<"0", "x", "2", "0", "0", "0", "0", "0", "0", "0", "0">>, 0))
       = <<"0", "x", "2", "0", "0", "0", "0", "0", "0", "0", "0">>
  /\ Text(SetString(<<"0", "x", "6", "4">>, 0), 10) = <<"1", "0", "0">>
  /\ Hex(MulAdd(SetString(<<"0", "x", "6", "4">>, 0), 2, 0)) = <<"0", "x", "c", "8">>
  /\ SetString(<<"0", "1", "0">>, 0) = Big(8)
  /\ SetString(<<"-", "5">>, 0) = [Big(5) EXCEPT !.neg = TRUE]
  /\ Hex(SetString(<<"-", "5">>, 0)) = <<"0", "x", "-", "5">>
  /\ SetString(<<"z", "z">>, 0) = NilBig
  /\ SetString(<<>>, 0) = NilBig
  /\ SNValToBN(<<"0", "x", "1", "f">>) = Big(31)
  /\ SNValToBN(<<"1", "0">>) = Big(10)
  /\ SetString(<<"8", "5", "8", "9", "9", "3", "4", "5", "9", "2">>, 10)
       = [Big(0) EXCEPT !.hi = 512]
  /\ Text([Big(0) EXCEPT !.hi = 512], 10)
       = <<"8", "5", "8", "9", "9", "3", "4", "5", "9", "2">>
====
